---- MODULE Spec2Model ----
(***************************************************************************)
(* Login rate limiting (app/services/login_rate_limit.py) and token        *)
(* revocation (app/services/token_blacklist.py) of the todo API, together  *)
(* with the HTTP handlers that drive them (app/api/auth.py) and the token  *)
(* validation dependency (app/dependencies.py).                            *)
(*                                                                         *)
(* One account is modelled.  Every request is an independent task; each    *)
(* action is one store command (one await) of a handler together with the  *)
(* local computation that follows it up to the next await.  Time is        *)
(* counted in minutes.  A store fault is a RedisError raised by a command  *)
(* issued while the store is unreachable.                                  *)
(***************************************************************************)
EXTENDS Integers, FiniteSets, Sequences, TLC

\* ------------------------------------------------------------- bounds
NumSlots == 2
MaxTokens == 2
MaxGoodLogins == 1
MaxTicks == 2
MaxOutages == 1
MaxCount == 6
MaxVersion == 1
MaxInFlight == 1
MaxStart == 54
MaxUnlocks == 1
MaxRevokes == 3
MaxLogoutAlls == 2

\* -------------------------------------------------- program constants
max_attempts == 5
base_lockout_minutes == 1
max_lockout_minutes == 480
attempt_window_hours == 24
access_token_expire_minutes == 60
blacklist_buffer_minutes == 5
blacklist_default_ttl_minutes == 1440
ttl_days == 30
further_requests == 10

None == -1

Slots == 1..NumSlots
JTIs == 1..MaxTokens

VARIABLES
    now,              \* the clock, in minutes
    ticks,            \* how many times the clock was advanced
    storeUp,          \* FALSE while store commands raise RedisError
    outages,          \* how many outages have begun
    failed_attempts,  \* key failed_attempts:{email}:  [val, exp]
    account_locked,   \* key account_locked:{email}:   [until, exp]
    token_blacklist,  \* keys token_blacklist:{jti}:   jti -> TTL deadline, None when absent
    user_token_version, \* key user_token_version:{user_id}: [val, exp]
    tokens,           \* the issued JWTs: jti -> [ver, exp, mark]
    req,              \* the request tasks: slot -> locals and position
    allRevokedTo,     \* history: the highest version a 204-answered logout-all incremented to
    hist              \* history of the account: [locks, first, since, unlocks, revokes, allAt]

vars == <<now, ticks, storeUp, outages, failed_attempts, account_locked,
          token_blacklist, user_token_version, tokens, req, allRevokedTo, hist>>

storeVars == <<failed_attempts, account_locked, token_blacklist, user_token_version>>
envVars == <<now, ticks, storeUp, outages>>

\* ------------------------------------------------------ pure functions

Min(a, b) == IF a < b THEN a ELSE b
Max(a, b) == IF a > b THEN a ELSE b

\* 2 ** n
RECURSIVE Pow2(_)
Pow2(n) == IF n <= 0 THEN 1 ELSE 2 * Pow2(n - 1)

\* variant: the duration is not capped
lockout_minutes_uncapped(current_attempts) ==
    base_lockout_minutes * Pow2((current_attempts - max_attempts) \div max_attempts)

\* login_rate_limit.py 78-84
lockout_minutes(current_attempts) ==
    Min(base_lockout_minutes
          * Pow2((current_attempts - max_attempts) \div max_attempts),
        max_lockout_minutes)

\* variant: the entry lives for the buffer only, not for the token's remaining life
blacklist_ttl_short(exp, t) == blacklist_buffer_minutes

\* token_blacklist.py 57-70: the TTL of a blacklist entry
blacklist_ttl(exp, t) ==
    IF exp # None /\ exp - t > 0
    THEN (exp - t) + blacklist_buffer_minutes
    ELSE blacklist_default_ttl_minutes

\* `await client.get(key) or "0"` followed by int(...)
IntOrZero(v) == IF v = None THEN 0 ELSE v

\* jose's expiry check in jwt.decode: the token is refused once now > exp
Expired(j) == now > tokens[j].exp

\* ------------------------------------------------------------- values

NoKey == [val |-> None, exp |-> None]
NoLock == [until |-> None, exp |-> None]
NoToken == [ver |-> None, exp |-> None, mark |-> "none"]

NoCheck == [ret |-> FALSE, allowed |-> FALSE, until |-> None, attempts |-> 0]
NoRecord == [ret |-> FALSE, attempts |-> 0, until |-> None]

\* A task's locals.  mark, afterAll and loSeen are history taken when the request
\* arrives: what had already been answered to earlier requests at that moment.
Idle == [kind |-> "none", pc |-> "idle", pw |-> FALSE, tok |-> 0,
         chk |-> NoCheck, rec |-> NoRecord,
         cur |-> 0, until |-> None, ttl |-> 0,
         status |-> 0, detail |-> "", age |-> 0,
         mark |-> "none", afterAll |-> 0, loSeen |-> None]

TokenKinds == {"validate", "logout", "logout_all"}

Free(r) == req[r].pc \in {"idle", "done"}
InFlight(r) == ~Free(r)

\* Tasks are interchangeable: a new request takes the first free one.
FirstFree(r) == Free(r) /\ \A s \in Slots : s < r => InFlight(s)

Minted == {j \in JTIs : tokens[j].ver # None}

LockoutActive == account_locked.until # None /\ account_locked.until > now

\* A handler's response: the task keeps what it answered and drops its locals.
Respond(q, status, detail) ==
    [Idle EXCEPT !.kind = q.kind, !.pc = "done", !.pw = q.pw, !.tok = q.tok,
                 !.chk = q.chk, !.rec = q.rec,
                 !.status = status, !.detail = detail]

\* What has happened to the account's lockouts so far:
\*   locks    how many lockouts were written since its first failure; None once
\*            failures were cleared, or when the account's past is not known
\*   first    the minutes the first lockout written was set to last
\*   since    how many login requests were answered since unlock_account removed
\*            a lockout (counted up to further_requests); None before
\*   unlocks  how many times unlock_account was called
\*   revokes  how many calls of revoke_all_user_tokens have returned
\*   allAt    when allRevokedTo was last raised
NoHist == [locks |-> 0, first |-> None, since |-> None, unlocks |-> 0, revokes |-> 0,
           allAt |-> None]

\* The failures counted so far are gone: clear_failed_attempts, unlock_account, or
\* the counter's TTL
Forgotten(h) == [h EXCEPT !.locks = None]

\* A lockout lasting `minutes` was written
Locked(h, minutes) ==
    [h EXCEPT !.locks = IF @ = None THEN None ELSE @ + 1,
              !.first = IF @ = None THEN minutes ELSE @]

\* Task q answered, or is still running
Answer(h, q) ==
    IF q.pc = "done" /\ h.since # None /\ h.since < further_requests
    THEN [h EXCEPT !.since = @ + 1]
    ELSE h

Init ==
    /\ now = 0
    /\ ticks = 0
    /\ storeUp = TRUE
    /\ outages = 0
    /\ failed_attempts = NoKey
    /\ account_locked = NoLock
    /\ token_blacklist = [j \in JTIs |-> None]
    /\ user_token_version = NoKey
    /\ tokens = [j \in JTIs |-> NoToken]
    /\ req = [r \in Slots |-> Idle]
    /\ allRevokedTo = 0
    /\ hist = NoHist

\* -------------------------------------------------------- environment

\* A key with a TTL is gone once its deadline is reached.
Live(k, t) == k.exp = None \/ k.exp > t

\* The clock advances by d minutes; keys whose TTL has run out disappear.
\* A request in flight lasts well under a minute per store command, so it sees
\* at most MaxInFlight minute boundaries; longer periods pass between requests.
Tick(d) ==
    /\ ticks < MaxTicks
    /\ \A r \in Slots : InFlight(r) => d = 1 /\ req[r].age < MaxInFlight
    /\ now' = now + d
    /\ ticks' = ticks + 1
    /\ failed_attempts' = IF Live(failed_attempts, now') THEN failed_attempts ELSE NoKey
    /\ account_locked' = IF Live(account_locked, now') THEN account_locked ELSE NoLock
    /\ user_token_version' =
          IF Live(user_token_version, now') THEN user_token_version ELSE NoKey
    /\ token_blacklist' =
          [j \in JTIs |-> IF token_blacklist[j] # None /\ token_blacklist[j] > now'
                          THEN token_blacklist[j] ELSE None]
    /\ req' = [r \in Slots |->
                 IF InFlight(r) THEN [req[r] EXCEPT !.age = @ + 1] ELSE req[r]]
    /\ hist' = IF failed_attempts.val # None /\ ~Live(failed_attempts, now')
               THEN Forgotten(hist) ELSE hist
    /\ UNCHANGED <<storeUp, outages, tokens, allRevokedTo>>

\* The store becomes unreachable: every command raises RedisError until it recovers.
StoreFail ==
    /\ storeUp
    /\ outages < MaxOutages
    /\ storeUp' = FALSE
    /\ outages' = outages + 1
    /\ UNCHANGED <<now, ticks, storeVars, tokens, req, allRevokedTo, hist>>

StoreRecover ==
    /\ ~storeUp
    /\ storeUp' = TRUE
    /\ UNCHANGED <<now, ticks, outages, storeVars, tokens, req, allRevokedTo, hist>>

\* ------------------------------------------- LoginRateLimitService

\* variant: the comparison with utcnow() reversed
StillLocked_reversed(lock) == lock.until # None /\ lock.until < now

\* variant: a lockout whose timestamp is reached still counts as locked
StillLocked_inclusive(lock) == lock.until # None /\ lock.until >= now

\* login_rate_limit.py 57-59: a lockout was read and locked_until_dt > utcnow()
StillLocked(lock) == lock.until # None /\ lock.until > now

\* variant: check_rate_limit fails closed
CheckFault_closed == [ret |-> TRUE, allowed |-> FALSE, until |-> None, attempts |-> 0]

\* variant: an allowed check reports no failures
CheckAllowed_zero(attempts) ==
    [ret |-> TRUE, allowed |-> TRUE, until |-> None, attempts |-> IntOrZero(None)]

\* check_rate_limit's return values
CheckLocked(until, attempts) ==
    [ret |-> TRUE, allowed |-> FALSE, until |-> until, attempts |-> IntOrZero(attempts)]
CheckAllowed(attempts) ==
    [ret |-> TRUE, allowed |-> TRUE, until |-> None, attempts |-> IntOrZero(attempts)]
CheckFault == [ret |-> TRUE, allowed |-> TRUE, until |-> None, attempts |-> 0]

\* variant: the failure is counted in what is returned
RecordResult_counted(attempts, until) ==
    [ret |-> TRUE, attempts |-> attempts + 1, until |-> until]

\* record_failed_attempt's return values
RecordResult(attempts, until) == [ret |-> TRUE, attempts |-> attempts, until |-> until]
RecordFault == [ret |-> TRUE, attempts |-> 0, until |-> None]

\* api/auth.py 74-88: the handler after check_rate_limit returned c
AfterCheck(q, c) ==
    IF ~c.allowed /\ c.until # None
    THEN Respond([q EXCEPT !.chk = c], 429, "locked")
    ELSE [q EXCEPT !.chk = c, !.pc = "authenticate", !.until = None]

\* api/auth.py 98-133: the handler after record_failed_attempt returned x.
\* With a lockout returned, line 107 reads `datetime`, which is a local name of
\* login (the import at line 80) that only the branch of lines 79-91 binds: the
\* UnboundLocalError leaves the handler and ErrorHandlerMiddleware
\* (middleware/error_handler.py 55-72) answers 500.
AfterRecord(q, x) ==
    IF x.until # None
    THEN Respond([q EXCEPT !.rec = x], 500, "unbound_datetime")
    ELSE Respond([q EXCEPT !.rec = x], 401, "invalid_credentials")

\* api/auth.py 120-131: what the 401 of a failed login reports
failed_attempts_reported(q) == q.rec.attempts
remaining_attempts(q) == Max(0, max_attempts - q.rec.attempts)

\* The highest token_version among the tokens a logout has answered 204 for.
MaxOf(S) == CHOOSE m \in S : \A x \in S : x <= m
LoggedOutVersions ==
    {tokens[j].ver : j \in {k \in Minted : tokens[k].mark \in {"unwritten", "written"}}}
LoggedOutMax == IF LoggedOutVersions = {} THEN None ELSE MaxOf(LoggedOutVersions)

LogoutAllInFlight == \E s \in Slots : InFlight(s) /\ req[s].kind = "logout_all"

\* POST /login arrives (api/auth.py 56-66); pw: the password is the account's
StartLogin(r, pw) ==
    /\ FirstFree(r)
    /\ pw => Cardinality(Minted)
               + Cardinality({s \in Slots : InFlight(s) /\ req[s].kind = "login"
                                              /\ req[s].pw}) < MaxTokens
    /\ ~pw => IntOrZero(failed_attempts.val)
               + Cardinality({s \in Slots : InFlight(s) /\ req[s].kind = "login"
                                              /\ ~req[s].pw}) < MaxCount
    /\ req' = [req EXCEPT ![r] =
          [Idle EXCEPT !.kind = "login", !.pw = pw, !.pc = "chk_get_lock",
                       !.loSeen = IF pw THEN LoggedOutMax ELSE None,
                       !.mark = IF ~pw THEN "none"
                                ELSE IF LogoutAllInFlight THEN "weak" ELSE "clean"]]
    /\ UNCHANGED <<envVars, storeVars, tokens, allRevokedTo, hist>>

\* api/auth.py 98-99: a POST /login with a wrong password that check_rate_limit
\* let through calls record_failed_attempt
FailedLogin(r) ==
    /\ FirstFree(r)
    /\ IntOrZero(failed_attempts.val)
          + Cardinality({s \in Slots : InFlight(s)}) < MaxStart + MaxCount
    /\ req' = [req EXCEPT ![r] =
          [Idle EXCEPT !.kind = "login", !.pw = FALSE, !.pc = "rec_get_lock"]]
    /\ UNCHANGED <<envVars, storeVars, tokens, allRevokedTo, hist>>

\* check_rate_limit, login_rate_limit.py 128-131: get(lockout_key)
check_get_lock(r) ==
    /\ req[r].pc = "chk_get_lock"
    /\ req' = [req EXCEPT ![r] =
          IF ~storeUp THEN AfterCheck(@, CheckFault)
          ELSE IF account_locked.until = None THEN [@ EXCEPT !.pc = "chk_get_attempts"]
          ELSE IF StillLocked(account_locked)
               THEN [@ EXCEPT !.pc = "chk_get_attempts_locked",
                              !.until = account_locked.until]
               ELSE [@ EXCEPT !.pc = "chk_delete", !.until = account_locked.until]]
    /\ UNCHANGED <<envVars, storeVars, tokens, allRevokedTo, hist>>

\* login_rate_limit.py 133-134: still locked, get(attempts_key)
check_get_attempts_locked(r) ==
    /\ req[r].pc = "chk_get_attempts_locked"
    /\ req' = [req EXCEPT ![r] =
          IF ~storeUp THEN AfterCheck(@, CheckFault)
          ELSE AfterCheck(@, CheckLocked(@.until, failed_attempts.val))]
    /\ hist' = Answer(hist, req'[r])
    /\ UNCHANGED <<envVars, storeVars, tokens, allRevokedTo>>

\* login_rate_limit.py 137: the lock read had expired, delete(lockout_key)
check_delete(r) ==
    /\ req[r].pc = "chk_delete"
    /\ account_locked' = IF storeUp THEN NoLock ELSE account_locked
    /\ req' = [req EXCEPT ![r] =
          IF ~storeUp THEN AfterCheck(@, CheckFault)
          ELSE [@ EXCEPT !.pc = "chk_get_attempts"]]
    /\ UNCHANGED <<envVars, failed_attempts, token_blacklist, user_token_version,
                   tokens, allRevokedTo, hist>>

\* login_rate_limit.py 140-141: get(attempts_key)
check_get_attempts(r) ==
    /\ req[r].pc = "chk_get_attempts"
    /\ req' = [req EXCEPT ![r] =
          IF ~storeUp THEN AfterCheck(@, CheckFault)
          ELSE AfterCheck(@, CheckAllowed(failed_attempts.val))]
    /\ UNCHANGED <<envVars, storeVars, tokens, allRevokedTo, hist>>

\* AuthService.authenticate_user, services/auth.py 55-78, and api/auth.py 96;
\* check_rate_limit's result is not read again
authenticate_user(r) ==
    /\ req[r].pc = "authenticate"
    /\ req' = [req EXCEPT ![r] =
          [@ EXCEPT !.pc = IF req[r].pw THEN "clear" ELSE "rec_get_lock",
                    !.chk = NoCheck]]
    /\ UNCHANGED <<envVars, storeVars, tokens, allRevokedTo, hist>>

\* record_failed_attempt, login_rate_limit.py 56-59: get(lockout_key)
record_get_lock(r) ==
    /\ req[r].pc = "rec_get_lock"
    /\ req' = [req EXCEPT ![r] =
          IF ~storeUp THEN AfterRecord(@, RecordFault)
          ELSE IF account_locked.until = None THEN [@ EXCEPT !.pc = "rec_incr"]
          ELSE IF StillLocked(account_locked)
               THEN [@ EXCEPT !.pc = "rec_get_attempts_locked",
                              !.until = account_locked.until]
               ELSE [@ EXCEPT !.pc = "rec_delete"]]
    /\ hist' = Answer(hist, req'[r])
    /\ UNCHANGED <<envVars, storeVars, tokens, allRevokedTo>>

\* login_rate_limit.py 61-62: still locked, get(key); no increment, no re-lock
record_get_attempts_locked(r) ==
    /\ req[r].pc = "rec_get_attempts_locked"
    /\ req' = [req EXCEPT ![r] =
          IF ~storeUp THEN AfterRecord(@, RecordFault)
          ELSE AfterRecord(@, RecordResult(IntOrZero(failed_attempts.val), @.until))]
    /\ hist' = Answer(hist, req'[r])
    /\ UNCHANGED <<envVars, storeVars, tokens, allRevokedTo>>

\* login_rate_limit.py 65: the lock read had expired, delete(lockout_key)
record_delete(r) ==
    /\ req[r].pc = "rec_delete"
    /\ account_locked' = IF storeUp THEN NoLock ELSE account_locked
    /\ req' = [req EXCEPT ![r] =
          IF ~storeUp THEN AfterRecord(@, RecordFault)
          ELSE [@ EXCEPT !.pc = "rec_incr"]]
    /\ hist' = Answer(hist, req'[r])
    /\ UNCHANGED <<envVars, failed_attempts, token_blacklist, user_token_version,
                   tokens, allRevokedTo>>

\* variant: the lockout is written one failure late
AfterCount_late(q, n) ==
    IF n > max_attempts
    THEN [q EXCEPT !.pc = "rec_setex", !.cur = n, !.until = now + lockout_minutes(n)]
    ELSE AfterRecord(q, RecordResult(n, None))

\* login_rate_limit.py 75-86: after the counter is current, lock or return
AfterCount(q, n) ==
    IF n >= max_attempts
    THEN [q EXCEPT !.pc = "rec_setex", !.cur = n, !.until = now + lockout_minutes(n)]
    ELSE AfterRecord(q, RecordResult(n, None))

\* login_rate_limit.py 68-72: incr(key)
record_incr(r) ==
    /\ req[r].pc = "rec_incr"
    /\ failed_attempts' =
          IF storeUp THEN [failed_attempts EXCEPT !.val = IntOrZero(@) + 1]
          ELSE failed_attempts
    /\ req' = [req EXCEPT ![r] =
          IF ~storeUp THEN AfterRecord(@, RecordFault)
          ELSE IF failed_attempts'.val = 1
               THEN [@ EXCEPT !.pc = "rec_expire", !.cur = 1]
               ELSE AfterCount(@, failed_attempts'.val)]
    /\ hist' = Answer(hist, req'[r])
    /\ UNCHANGED <<envVars, account_locked, token_blacklist, user_token_version,
                   tokens, allRevokedTo>>

\* login_rate_limit.py 72: first attempt, expire(key, attempt window)
record_expire(r) ==
    /\ req[r].pc = "rec_expire"
    /\ failed_attempts' =
          IF storeUp /\ failed_attempts.val # None
          THEN [failed_attempts EXCEPT !.exp = now + attempt_window_hours * 60]
          ELSE failed_attempts
    /\ req' = [req EXCEPT ![r] =
          IF ~storeUp THEN AfterRecord(@, RecordFault) ELSE AfterCount(@, @.cur)]
    /\ hist' = Answer(hist, req'[r])
    /\ UNCHANGED <<envVars, account_locked, token_blacklist, user_token_version,
                   tokens, allRevokedTo>>

\* variant: the lockout is written only if none is in force (set with NX)
record_setex_if_absent(r) ==
    /\ req[r].pc = "rec_setex"
    /\ account_locked' =
          IF storeUp /\ ~StillLocked(account_locked)
          THEN [until |-> req[r].until, exp |-> now + lockout_minutes(req[r].cur)]
          ELSE account_locked
    /\ req' = [req EXCEPT ![r] =
          IF ~storeUp THEN AfterRecord(@, RecordFault)
          ELSE AfterRecord(@, RecordResult(@.cur, @.until))]
    /\ hist' = Answer(IF storeUp /\ ~StillLocked(account_locked)
                      THEN Locked(hist, account_locked'.exp - now) ELSE hist,
                      req'[r])
    /\ UNCHANGED <<envVars, failed_attempts, token_blacklist, user_token_version,
                   tokens, allRevokedTo>>

\* login_rate_limit.py 89-100: setex(lockout_key, lockout_minutes * 60, lockout_until)
record_setex(r) ==
    /\ req[r].pc = "rec_setex"
    /\ account_locked' =
          IF storeUp
          THEN [until |-> req[r].until, exp |-> now + lockout_minutes(req[r].cur)]
          ELSE account_locked
    /\ req' = [req EXCEPT ![r] =
          IF ~storeUp THEN AfterRecord(@, RecordFault)
          ELSE AfterRecord(@, RecordResult(@.cur, @.until))]
    /\ hist' = Answer(IF storeUp THEN Locked(hist, account_locked'.exp - now) ELSE hist,
                      req'[r])
    /\ UNCHANGED <<envVars, failed_attempts, token_blacklist, user_token_version,
                   tokens, allRevokedTo>>

\* variant: only the lockout key is deleted
clear_failed_attempts_lock_only(r) ==
    /\ req[r].pc = "clear"
    /\ account_locked' = IF storeUp THEN NoLock ELSE account_locked
    /\ req' = [req EXCEPT ![r].pc = "mint"]
    /\ hist' = IF storeUp /\ account_locked # NoLock THEN Forgotten(hist) ELSE hist
    /\ UNCHANGED <<envVars, failed_attempts, token_blacklist, user_token_version,
                   tokens, allRevokedTo>>

\* clear_failed_attempts, login_rate_limit.py 155-168: delete(key, lockout_key);
\* a fault is logged and swallowed
clear_failed_attempts(r) ==
    /\ req[r].pc = "clear"
    /\ failed_attempts' = IF storeUp THEN NoKey ELSE failed_attempts
    /\ account_locked' = IF storeUp THEN NoLock ELSE account_locked
    /\ req' = [req EXCEPT ![r].pc = "mint"]
    /\ hist' = IF storeUp /\ (failed_attempts # NoKey \/ account_locked # NoLock)
               THEN Forgotten(hist) ELSE hist
    /\ UNCHANGED <<envVars, token_blacklist, user_token_version, tokens, allRevokedTo>>

\* unlock_account is called for the account (api/admin.py 82;
\* tests/integration/test_auth_rate_limit.py 275-277)
StartUnlock(r) ==
    /\ FirstFree(r)
    /\ hist.unlocks < MaxUnlocks
    /\ req' = [req EXCEPT ![r] = [Idle EXCEPT !.kind = "unlock", !.pc = "ul_exists"]]
    /\ hist' = [hist EXCEPT !.unlocks = @ + 1]
    /\ UNCHANGED <<envVars, storeVars, tokens, allRevokedTo>>

\* variant: was_locked is read from the counter's key
unlock_exists_counter(r) ==
    /\ req[r].pc = "ul_exists"
    /\ req' = [req EXCEPT ![r] =
          IF ~storeUp THEN Respond(@, 200, "redis_error")
          ELSE [@ EXCEPT !.pc = "ul_delete",
                         !.cur = IF failed_attempts.val # None THEN 1 ELSE 0]]
    /\ UNCHANGED <<envVars, storeVars, tokens, allRevokedTo, hist>>

\* unlock_account, login_rate_limit.py 185: was_locked = exists(lockout_key);
\* a fault returns False (195-197)
unlock_exists(r) ==
    /\ req[r].pc = "ul_exists"
    /\ req' = [req EXCEPT ![r] =
          IF ~storeUp THEN Respond(@, 200, "redis_error")
          ELSE [@ EXCEPT !.pc = "ul_delete",
                         !.cur = IF account_locked.until # None THEN 1 ELSE 0]]
    /\ UNCHANGED <<envVars, storeVars, tokens, allRevokedTo, hist>>

\* login_rate_limit.py 188-193: delete(lockout_key, attempts_key), return was_locked
unlock_delete(r) ==
    /\ req[r].pc = "ul_delete"
    /\ failed_attempts' = IF storeUp THEN NoKey ELSE failed_attempts
    /\ account_locked' = IF storeUp THEN NoLock ELSE account_locked
    /\ req' = [req EXCEPT ![r] =
          Respond(@, 200, IF ~storeUp THEN "redis_error"
                          ELSE IF @.cur = 1 THEN "unlocked" ELSE "not_locked")]
    /\ hist' = IF ~storeUp THEN hist
               ELSE [Forgotten(hist) EXCEPT
                        !.since = IF req[r].cur = 1 /\ hist.first # None THEN 0 ELSE @]
    /\ UNCHANGED <<envVars, token_blacklist, user_token_version, tokens, allRevokedTo>>

\* ------------------------------------------- TokenBlacklistService

\* variant: the lookup never finds the entry
is_token_blacklisted_missing(j) == IF storeUp THEN FALSE ELSE TRUE

\* variant: the lookup fails open
is_token_blacklisted_open(j) == IF storeUp THEN token_blacklist[j] # None ELSE FALSE

\* variant: the version is read under a key that is never written
get_user_token_version_wrong_key == IF storeUp THEN IntOrZero(None) ELSE 0

\* variant: the version read fails closed
get_user_token_version_closed ==
    IF storeUp THEN IntOrZero(user_token_version.val) ELSE MaxVersion + 1

\* is_token_blacklisted, token_blacklist.py 86-94: exists(key); fails closed
is_token_blacklisted(j) ==
    IF storeUp THEN token_blacklist[j] # None ELSE TRUE

\* get_user_token_version, token_blacklist.py 129-137: get(key); fails open
get_user_token_version ==
    IF storeUp THEN IntOrZero(user_token_version.val) ELSE 0

\* uuid.uuid4(), jwt_utils.py 37: an identifier no issued token carries
FreshJti == CHOOSE j \in JTIs \ Minted : \A k \in JTIs \ Minted : j <= k

\* What has been answered about a token so far, in the order it can only grow:
\*   clean      nothing that revokes it has begun since its login began
\*   weak       as clean, but a logout-all-devices was already in flight when its
\*              login began, or its mint's version read faulted
\*   started    a logout of it, or a logout-all-devices, has arrived since
\*   unwritten  a logout of it was answered 204 without a blacklist write
\*   written    a logout of it was answered 204 after its blacklist write
Rank(m) ==
    CASE m = "none" -> 0 [] m = "clean" -> 1 [] m = "weak" -> 2
      [] m = "started" -> 3 [] m = "unwritten" -> 4 [] m = "written" -> 5
Raise(old, new) == IF Rank(new) > Rank(old) THEN new ELSE old

\* create_user_token, services/auth.py 151-164, with create_access_token_async,
\* jwt_utils.py 27-50: read the version, mint the token, answer 200
create_user_token(r) ==
    /\ req[r].pc = "mint"
    /\ JTIs \ Minted # {}
    /\ tokens' = [tokens EXCEPT ![FreshJti] =
          [ver |-> get_user_token_version,
           exp |-> now + access_token_expire_minutes,
           mark |-> IF storeUp THEN req[r].mark ELSE Raise(req[r].mark, "weak")]]
    /\ req' = [req EXCEPT ![r] =
          Respond([@ EXCEPT !.tok = FreshJti], 200, "token")]
    /\ hist' = Answer(hist, req'[r])
    /\ UNCHANGED <<envVars, storeVars, allRevokedTo>>

\* What a request that presents a token remembers of the token's mark on arrival:
\* whether a logout of it had been answered 204, and with which write.
Answered(m) == IF m \in {"unwritten", "written"} THEN m ELSE "none"

\* variant: one version of slack
Outdated_slack(token_version, current_version) == token_version + 1 < current_version

\* variant: the current version counts as outdated
Outdated_inclusive(token_version, current_version) == token_version <= current_version

\* dependencies.py 54: the credential is older than the account's version
Outdated(token_version, current_version) == token_version < current_version

\* variant: the version check runs before the blacklist check
Arrive_version_first(r, kind, j) ==
    /\ FirstFree(r)
    /\ j \in Minted
    /\ LET q == [Idle EXCEPT !.kind = kind, !.tok = j,
                             !.mark = Answered(tokens[j].mark),
                             !.afterAll = allRevokedTo]
       IN req' = [s \in Slots |->
                    IF s = r
                    THEN IF Expired(j) THEN Respond(q, 401, "invalid")
                         ELSE [q EXCEPT !.pc = "val_get_version"]
                    ELSE IF kind = "logout_all" /\ InFlight(s)
                            /\ req[s].kind = "login" /\ req[s].pw
                         THEN [req[s] EXCEPT !.mark = "started"]
                         ELSE req[s]]
    /\ tokens' = [k \in JTIs |->
                    IF tokens[k].ver # None
                       /\ (kind = "logout_all" \/ (kind = "logout" /\ k = j))
                    THEN [tokens[k] EXCEPT !.mark = Raise(@, "started")]
                    ELSE tokens[k]]
    /\ UNCHANGED <<envVars, storeVars, allRevokedTo, hist>>

\* A request carrying the bearer token j arrives at an authenticated endpoint:
\* get_current_user_id decodes it (dependencies.py 24-36, 62-67).
\* kind: "validate" (any authenticated endpoint), "logout", "logout_all"
Arrive(r, kind, j) ==
    /\ FirstFree(r)
    /\ j \in Minted
    /\ LET q == [Idle EXCEPT !.kind = kind, !.tok = j,
                             !.mark = Answered(tokens[j].mark),
                             !.afterAll = allRevokedTo]
       IN req' = [s \in Slots |->
                    IF s = r
                    THEN IF Expired(j) THEN Respond(q, 401, "invalid")
                         ELSE [q EXCEPT !.pc = "val_exists"]
                    ELSE IF kind = "logout_all" /\ InFlight(s)
                            /\ req[s].kind = "login" /\ req[s].pw
                         THEN [req[s] EXCEPT !.mark = "started"]
                         ELSE req[s]]
    /\ tokens' = [k \in JTIs |->
                    IF tokens[k].ver # None
                       /\ (kind = "logout_all" \/ (kind = "logout" /\ k = j))
                    THEN [tokens[k] EXCEPT !.mark = Raise(@, "started")]
                    ELSE tokens[k]]
    /\ UNCHANGED <<envVars, storeVars, allRevokedTo, hist>>

\* Such a request, with the account's version kept within MaxVersion
StartAuth(r, kind, j) ==
    /\ kind = "logout_all" =>
          IntOrZero(user_token_version.val)
            + Cardinality({s \in Slots : InFlight(s) /\ req[s].kind = "logout_all"})
            < MaxVersion
    /\ Arrive(r, kind, j)

\* dependencies.py 38-47: the blacklist check
validate_blacklist(r) ==
    /\ req[r].pc = "val_exists"
    /\ req' = [req EXCEPT ![r] =
          IF is_token_blacklisted(@.tok) THEN Respond(@, 401, "revoked")
          ELSE [@ EXCEPT !.pc = "val_get_version"]]
    /\ UNCHANGED <<envVars, storeVars, tokens, allRevokedTo, hist>>

\* dependencies.py 49-61: the version check; then the endpoint's first lines:
\* api/auth.py 164-189 for logout, 220-223 for logout-all-devices
validate_version(r) ==
    /\ req[r].pc = "val_get_version"
    /\ LET j == req[r].tok
           q == req[r]
           rejected == Outdated(tokens[j].ver, get_user_token_version)
           decodeFails == Expired(j)
       IN /\ req' = [req EXCEPT ![r] =
                IF rejected THEN Respond(q, 401, "revoked")
                ELSE IF q.kind = "validate" THEN Respond(q, 200, "ok")
                ELSE IF q.kind = "logout_all"
                     THEN [q EXCEPT !.pc = "la_incr", !.mark = "none", !.afterAll = 0]
                ELSE IF decodeFails THEN Respond(q, 204, "jwt_error")
                ELSE [q EXCEPT !.pc = "lo_setex", !.mark = "none", !.afterAll = 0,
                               !.ttl = blacklist_ttl(tokens[j].exp, now)]]
          /\ tokens' = IF ~rejected /\ q.kind = "logout" /\ decodeFails
                       THEN [tokens EXCEPT ![j].mark = Raise(@, "unwritten")]
                       ELSE tokens
    /\ UNCHANGED <<envVars, storeVars, allRevokedTo, hist>>

\* variant: the version is set to 1, not incremented
revoke_incr_set(r) ==
    /\ req[r].pc = "la_incr"
    /\ user_token_version' =
          IF storeUp THEN [user_token_version EXCEPT !.val = 1] ELSE user_token_version
    /\ req' = [req EXCEPT ![r] =
          IF ~storeUp THEN Respond(@, 500, "redis_error")
          ELSE [@ EXCEPT !.pc = "la_expire", !.cur = user_token_version'.val]]
    /\ UNCHANGED <<envVars, failed_attempts, account_locked, token_blacklist, tokens,
                   allRevokedTo, hist>>

\* variant: the write-side operations swallow the fault
WriteRaises_swallowed == FALSE

\* token_blacklist.py 72-75 and 116-118: except RedisError: ... raise
WriteRaises == ~storeUp

\* logout, api/auth.py 185-209: add_token_to_blacklist returned, or raised a
\* RedisError that the handler logs; either way the endpoint answers 204
AfterAdd(q, raised) ==
    Respond(q, 204, IF raised THEN "redis_error" ELSE "logged_out")

\* logout_all_devices, api/auth.py 222-223: revoke_all_user_tokens raised; nothing
\* catches it and ErrorHandlerMiddleware answers 500
AfterRevokeRaised(q) == Respond(q, 500, "redis_error")

\* add_token_to_blacklist, token_blacklist.py 66-75: setex(key, ttl, data); the
\* fault it raises is caught by logout, api/auth.py 197-204, which answers 204
logout_setex(r) ==
    /\ req[r].pc = "lo_setex"
    /\ LET j == req[r].tok
       IN /\ token_blacklist' =
                IF storeUp THEN [token_blacklist EXCEPT ![j] = now + req[r].ttl]
                ELSE token_blacklist
          /\ tokens' = [tokens EXCEPT ![j].mark =
                          Raise(@, IF storeUp THEN "written" ELSE "unwritten")]
          /\ req' = [req EXCEPT ![r] = AfterAdd(@, WriteRaises)]
    /\ UNCHANGED <<envVars, failed_attempts, account_locked, user_token_version,
                   allRevokedTo, hist>>

\* revoke_all_user_tokens, token_blacklist.py 110: incr(key); a fault is raised
\* to logout_all_devices, which does not catch it (api/auth.py 222-223)
revoke_incr(r) ==
    /\ req[r].pc = "la_incr"
    /\ user_token_version' =
          IF storeUp THEN [user_token_version EXCEPT !.val = IntOrZero(@) + 1]
          ELSE user_token_version
    /\ req' = [req EXCEPT ![r] =
          IF WriteRaises THEN AfterRevokeRaised(@)
          ELSE [@ EXCEPT !.pc = "la_expire", !.cur = user_token_version'.val]]
    /\ UNCHANGED <<envVars, failed_attempts, account_locked, token_blacklist, tokens,
                   allRevokedTo, hist>>

\* token_blacklist.py 113-114: expire(key, 30 days); then 204
revoke_expire(r) ==
    /\ req[r].pc = "la_expire"
    /\ user_token_version' =
          IF storeUp /\ user_token_version.val # None
          THEN [user_token_version EXCEPT !.exp = now + ttl_days * 1440]
          ELSE user_token_version
    /\ allRevokedTo' = IF storeUp THEN Max(allRevokedTo, req[r].cur) ELSE allRevokedTo
    /\ req' = [req EXCEPT ![r] =
          IF WriteRaises THEN AfterRevokeRaised(@)
          ELSE Respond(@, 204, "all_logged_out")]
    /\ hist' = IF WriteRaises THEN hist
               ELSE [hist EXCEPT !.revokes = @ + 1,
                                 !.allAt = IF req[r].cur > allRevokedTo THEN now ELSE @]
    /\ UNCHANGED <<envVars, failed_attempts, account_locked, token_blacklist, tokens>>

\* revoke_all_user_tokens is called for the account (api/auth.py 222;
\* tests/unit/test_token_blacklist.py 134)
RevokeCall(r) ==
    /\ FirstFree(r)
    /\ hist.revokes
          + Cardinality({s \in Slots : InFlight(s) /\ req[s].kind = "logout_all"})
          < MaxRevokes
    /\ req' = [req EXCEPT ![r] = [Idle EXCEPT !.kind = "logout_all", !.pc = "la_incr"]]
    /\ UNCHANGED <<envVars, storeVars, tokens, allRevokedTo, hist>>

\* get_user_token_version is called for the account (dependencies.py 54)
VersionCall(r) ==
    /\ FirstFree(r)
    /\ req' = [req EXCEPT ![r] = [Idle EXCEPT !.kind = "version", !.pc = "gv_get"]]
    /\ UNCHANGED <<envVars, storeVars, tokens, allRevokedTo, hist>>

\* token_blacklist.py 129-137: get(key), and the value returned
version_get(r) ==
    /\ req[r].pc = "gv_get"
    /\ req' = [req EXCEPT ![r] =
          [Respond(@, 200, "version") EXCEPT !.cur = get_user_token_version]]
    /\ UNCHANGED <<envVars, storeVars, tokens, allRevokedTo, hist>>

\* ----------------------------------------------------- specifications

\* The login flow: requests to POST /login with right and wrong passwords, of
\* which at most MaxGoodLogins carry the right one; minutes pass at any moment.
LimiterLogin(r, pw) ==
    /\ pw => Cardinality(Minted)
               + Cardinality({s \in Slots : InFlight(s) /\ req[s].kind = "login"
                                              /\ req[s].pw}) < MaxGoodLogins
    /\ StartLogin(r, pw)

LimiterNext ==
    \/ Tick(1)
    \/ StoreFail
    \/ StoreRecover
    \/ \E r \in Slots, pw \in BOOLEAN : LimiterLogin(r, pw)
    \/ \E r \in Slots : check_get_lock(r)
    \/ \E r \in Slots : check_get_attempts_locked(r)
    \/ \E r \in Slots : check_delete(r)
    \/ \E r \in Slots : check_get_attempts(r)
    \/ \E r \in Slots : authenticate_user(r)
    \/ \E r \in Slots : record_get_lock(r)
    \/ \E r \in Slots : record_get_attempts_locked(r)
    \/ \E r \in Slots : record_delete(r)
    \/ \E r \in Slots : record_incr(r)
    \/ \E r \in Slots : record_expire(r)
    \/ \E r \in Slots : record_setex(r)
    \/ \E r \in Slots : clear_failed_attempts(r)
    \/ \E r \in Slots : create_user_token(r)

LimiterSpec == Init /\ [][LimiterNext]_vars

\* record_failed_attempt at any counter value: the account has 0..MaxStart failures
\* counted in its window and no lockout key (concurrent wrong logins that all
\* passed check_rate_limit before the first lockout was written push the counter
\* to any value; the lockout then runs out), and wrong logins call
\* record_failed_attempt.  The store is healthy.
DurationInit ==
    /\ now = 0
    /\ ticks = 0
    /\ storeUp = TRUE
    /\ outages = 0
    /\ \E n \in 0..MaxStart :
          failed_attempts = IF n = 0 THEN NoKey
                            ELSE [val |-> n, exp |-> attempt_window_hours * 60]
    /\ account_locked = NoLock
    /\ token_blacklist = [j \in JTIs |-> None]
    /\ user_token_version = NoKey
    /\ tokens = [j \in JTIs |-> NoToken]
    /\ req = [r \in Slots |-> Idle]
    /\ allRevokedTo = 0
    /\ hist = IF failed_attempts = NoKey THEN NoHist ELSE Forgotten(NoHist)

DurationNext ==
    \/ Tick(1)
    \/ \E r \in Slots : FailedLogin(r)
    \/ \E r \in Slots : record_get_lock(r)
    \/ \E r \in Slots : record_get_attempts_locked(r)
    \/ \E r \in Slots : record_delete(r)
    \/ \E r \in Slots : record_incr(r)
    \/ \E r \in Slots : record_expire(r)
    \/ \E r \in Slots : record_setex(r)

DurationSpec == DurationInit /\ [][DurationNext]_vars

\* One client of the account, as the integration tests drive it: wrong-password
\* logins one after the other, each sent when the last was answered, and a call of
\* unlock_account; the store is healthy.  With one request at a time
\* record_failed_attempt never finds a lockout key (check_rate_limit has just
\* found none or deleted it), so its two branches for that are not steps here.
Sequential == \A s \in Slots : Free(s)

BackoffNext ==
    \/ Tick(1)
    \/ \E r \in Slots : Sequential /\ StartLogin(r, FALSE)
    \/ \E r \in Slots : Sequential /\ StartUnlock(r)
    \/ \E r \in Slots : check_get_lock(r)
    \/ \E r \in Slots : check_get_attempts_locked(r)
    \/ \E r \in Slots : check_delete(r)
    \/ \E r \in Slots : check_get_attempts(r)
    \/ \E r \in Slots : authenticate_user(r)
    \/ \E r \in Slots : record_get_lock(r)
    \/ \E r \in Slots : record_incr(r)
    \/ \E r \in Slots : record_expire(r)
    \/ \E r \in Slots : record_setex(r)
    \/ \E r \in Slots : unlock_exists(r)
    \/ \E r \in Slots : unlock_delete(r)

BackoffSpec == Init /\ [][BackoffNext]_vars

\* One client and an administrator: logins with right and wrong passwords and
\* calls of unlock_account, one request at a time, while the store may become
\* unreachable.
UnlockNext ==
    \/ Tick(1)
    \/ StoreFail
    \/ StoreRecover
    \/ \E r \in Slots, pw \in BOOLEAN : Sequential /\ LimiterLogin(r, pw)
    \/ \E r \in Slots : Sequential /\ StartUnlock(r)
    \/ \E r \in Slots : check_get_lock(r)
    \/ \E r \in Slots : check_get_attempts_locked(r)
    \/ \E r \in Slots : check_delete(r)
    \/ \E r \in Slots : check_get_attempts(r)
    \/ \E r \in Slots : authenticate_user(r)
    \/ \E r \in Slots : record_get_lock(r)
    \/ \E r \in Slots : record_get_attempts_locked(r)
    \/ \E r \in Slots : record_delete(r)
    \/ \E r \in Slots : record_incr(r)
    \/ \E r \in Slots : record_expire(r)
    \/ \E r \in Slots : record_setex(r)
    \/ \E r \in Slots : clear_failed_attempts(r)
    \/ \E r \in Slots : create_user_token(r)
    \/ \E r \in Slots : unlock_exists(r)
    \/ \E r \in Slots : unlock_delete(r)

UnlockSpec == Init /\ [][UnlockNext]_vars

\* The account's token version: calls of revoke_all_user_tokens and of
\* get_user_token_version, in any interleaving, with a healthy store.
VersionNext ==
    \/ Tick(access_token_expire_minutes)
    \/ \E r \in Slots : RevokeCall(r)
    \/ \E r \in Slots : VersionCall(r)
    \/ \E r \in Slots : revoke_incr(r)
    \/ \E r \in Slots : revoke_expire(r)
    \/ \E r \in Slots : version_get(r)

VersionSpec == Init /\ [][VersionNext]_vars

\* Tokens over long periods, with a healthy store: between requests an hour
\* passes, or all but the last minute of the version key's 30 days; at most
\* MaxLogoutAlls requests to logout-all-devices are made.
LongWaits == {1, access_token_expire_minutes, ttl_days * 1440 - 1}

PermanenceNext ==
    \/ \E d \in LongWaits : Tick(d)
    \/ \E r \in Slots : StartLogin(r, TRUE)
    \/ \E r \in Slots : check_get_lock(r)
    \/ \E r \in Slots : check_get_attempts(r)
    \/ \E r \in Slots : authenticate_user(r)
    \/ \E r \in Slots : clear_failed_attempts(r)
    \/ \E r \in Slots : create_user_token(r)
    \/ \E r \in Slots, j \in JTIs, kind \in TokenKinds :
          /\ kind = "logout_all" =>
                hist.revokes
                  + Cardinality({s \in Slots : InFlight(s) /\ req[s].kind = "logout_all"})
                  < MaxLogoutAlls
          /\ Arrive(r, kind, j)
    \/ \E r \in Slots : validate_blacklist(r)
    \/ \E r \in Slots : validate_version(r)
    \/ \E r \in Slots : logout_setex(r)
    \/ \E r \in Slots : revoke_incr(r)
    \/ \E r \in Slots : revoke_expire(r)

PermanenceSpec == Init /\ [][PermanenceNext]_vars

\* The token life cycle: successful logins, and requests that present a token;
\* a token lifetime passes between requests.
RevocationNext ==
    \/ Tick(access_token_expire_minutes)
    \/ StoreFail
    \/ StoreRecover
    \/ \E r \in Slots : StartLogin(r, TRUE)
    \/ \E r \in Slots : check_get_lock(r)
    \/ \E r \in Slots : check_get_attempts(r)
    \/ \E r \in Slots : authenticate_user(r)
    \/ \E r \in Slots : clear_failed_attempts(r)
    \/ \E r \in Slots : create_user_token(r)
    \/ \E r \in Slots, j \in JTIs, kind \in TokenKinds : StartAuth(r, kind, j)
    \/ \E r \in Slots : validate_blacklist(r)
    \/ \E r \in Slots : validate_version(r)
    \/ \E r \in Slots : logout_setex(r)
    \/ \E r \in Slots : revoke_incr(r)
    \/ \E r \in Slots : revoke_expire(r)

RevocationSpec == Init /\ [][RevocationNext]_vars

\* ------------------------------------------------------------- claims

\* Task r takes a step of its handler.
Stepped(r) == req'[r].pc # req[r].pc
Rejected(q, detail) == q.pc = "done" /\ q.status = 401 /\ q.detail = detail

\* C1 as stated: no login returns a token at a moment when a non-expired lockout
\* of the account is in the store.
C1_NoTokenWhileLocked ==
    [][\A r \in Slots :
          req[r].pc = "mint" /\ req'[r].pc = "done" /\ req'[r].status = 200
          => ~(account_locked'.until # None /\ account_locked'.until > now')]_vars

\* C1 amended: a login whose check_rate_limit reads the non-expired lockout and
\* completes without a store fault is answered 429, whatever the password.
C1_LockSeenIsRejected ==
    [][\A r \in Slots :
          /\ req[r].pc = "chk_get_lock" /\ storeUp /\ LockoutActive /\ Stepped(r)
             => req'[r].pc = "chk_get_attempts_locked"
          /\ req[r].pc = "chk_get_attempts_locked" /\ storeUp /\ Stepped(r)
             => req'[r].pc = "done" /\ req'[r].status = 429]_vars

\* The right password, answered 429 while the lockout is in force.
C1_Witness ==
    \E r \in Slots :
        /\ req[r].pc = "done" /\ req[r].kind = "login" /\ req[r].pw
        /\ req[r].status = 429 /\ req[r].detail = "locked"
        /\ LockoutActive

\* C2: a request whose token's jti has a blacklist entry is rejected at the
\* blacklist check, whatever the token's version.
C2_BlacklistedIsRejected ==
    [][\A r \in Slots :
          req[r].pc = "val_exists" /\ token_blacklist[req[r].tok] # None /\ Stepped(r)
          => Rejected(req'[r], "revoked")]_vars

\* A token that is not outdated is rejected because its jti is blacklisted.
C2_Witness ==
    \E r \in Slots :
        /\ req[r].kind \in TokenKinds /\ Rejected(req[r], "revoked")
        /\ token_blacklist[req[r].tok] # None
        /\ tokens[req[r].tok].ver >= IntOrZero(user_token_version.val)
        /\ outages = 0

\* C3 as stated: a token whose version is below the stored UserTokenVersion is
\* rejected at the version check, store faults included.
C3_OlderIsRejected ==
    [][\A r \in Slots :
          /\ req[r].pc = "val_get_version" /\ Stepped(r)
          /\ user_token_version.val # None
          /\ tokens[req[r].tok].ver < user_token_version.val
          => Rejected(req'[r], "revoked")]_vars

\* C3 amended: ... is rejected whenever the version read does not fault.
C3_OlderIsRejectedUnlessFault ==
    [][\A r \in Slots :
          /\ req[r].pc = "val_get_version" /\ Stepped(r)
          /\ storeUp
          /\ user_token_version.val # None
          /\ tokens[req[r].tok].ver < user_token_version.val
          => Rejected(req'[r], "revoked")]_vars

\* A token that is not blacklisted is rejected for its version, no fault involved.
C3_Witness ==
    \E r \in Slots :
        /\ req[r].kind \in TokenKinds /\ Rejected(req[r], "revoked")
        /\ token_blacklist[req[r].tok] = None
        /\ user_token_version.val # None
        /\ tokens[req[r].tok].ver < user_token_version.val
        /\ outages = 0

\* C4 as stated (its rejection; the wording of the 401 is left aside): a request
\* that arrives with a token for which POST /logout has answered 204 is never
\* let through validation.
C4_AfterLogoutRejected ==
    [][\A r \in Slots :
          /\ req[r].kind \in TokenKinds /\ req[r].mark \in {"unwritten", "written"}
          /\ req[r].pc \in {"val_exists", "val_get_version"} /\ Stepped(r)
          => \/ Rejected(req'[r], "revoked")
             \/ req[r].pc = "val_exists" /\ req'[r].pc = "val_get_version"]_vars

\* C4 amended: a request that arrives with a token for which POST /logout has
\* answered 204 after its blacklist write is answered 401: as expired on arrival,
\* or else as revoked at the blacklist check.
C4_AfterWrittenLogoutRejected ==
    [][\A r \in Slots :
          /\ Free(r) /\ req'[r] # req[r] /\ req'[r].kind \in TokenKinds
             /\ tokens[req'[r].tok].mark = "written"
             => \/ req'[r].pc = "val_exists" /\ req'[r].mark = "written"
                \/ Rejected(req'[r], "invalid") /\ now > tokens[req'[r].tok].exp
          /\ InFlight(r) /\ req[r].kind \in TokenKinds /\ req[r].mark = "written"
             /\ Stepped(r)
             => Rejected(req'[r], "revoked")]_vars

\* A second logout with a token already logged out is rejected.
C4_Witness ==
    \E r \in Slots :
        /\ req[r].kind = "logout" /\ Rejected(req[r], "revoked")
        /\ tokens[req[r].tok].mark = "written"
        /\ token_blacklist[req[r].tok] # None
        /\ outages = 0

\* C5 as stated: after logout-all-devices answered 204, a request that arrives
\* with a token whose version is below the incremented one is rejected at the
\* version check.
C5_OutdatedRejected ==
    [][\A r \in Slots :
          /\ req[r].kind \in TokenKinds /\ req[r].pc = "val_get_version" /\ Stepped(r)
          /\ tokens[req[r].tok].ver < req[r].afterAll
          => Rejected(req'[r], "revoked")]_vars

\* C5 amended: ... is rejected whenever the validation's version read does not fault.
C5_OutdatedRejectedUnlessFault ==
    [][\A r \in Slots :
          /\ req[r].kind \in TokenKinds /\ req[r].pc = "val_get_version" /\ Stepped(r)
          /\ storeUp
          /\ tokens[req[r].tok].ver < req[r].afterAll
          => Rejected(req'[r], "revoked")]_vars

\* Both tokens of the account, neither blacklisted, are rejected after one
\* logout-all-devices.
C5_Witness ==
    \E r, s \in Slots :
        /\ req[r].tok # req[s].tok
        /\ \A t \in {r, s} :
              /\ req[t].kind \in TokenKinds /\ Rejected(req[t], "revoked")
              /\ tokens[req[t].tok].ver < allRevokedTo
              /\ token_blacklist[req[t].tok] = None
        /\ outages = 0

\* C6 as stated: a token is rejected as revoked only if a logout of it or a
\* logout-all-devices has started since its login began.
C6_FreshTokenAccepted ==
    [][\A r \in Slots :
          /\ InFlight(r) /\ req[r].kind \in TokenKinds
          /\ Rejected(req'[r], "revoked")
          => tokens[req[r].tok].mark \notin {"clean", "weak"}]_vars

\* C6 amended: ... or a logout-all-devices was in flight when its login began, or
\* a store command faulted in its mint's version read or in the validation.
C6_FreshTokenAcceptedUnlessFault ==
    [][\A r \in Slots :
          /\ InFlight(r) /\ req[r].kind \in TokenKinds
          /\ storeUp
          /\ Rejected(req'[r], "revoked")
          => tokens[req[r].tok].mark # "clean"]_vars

\* A token minted with the incremented version is accepted.
C6_Witness ==
    \E r \in Slots :
        /\ req[r].kind = "validate" /\ req[r].pc = "done" /\ req[r].status = 200
        /\ tokens[req[r].tok].mark = "clean"
        /\ tokens[req[r].tok].ver >= 1

\* C7 as stated: a login that begins after POST /logout has answered 204 for an
\* earlier token mints a token of a strictly greater version.
C7_LoginAfterLogoutNewVersion ==
    [][\A r \in Slots :
          req[r].pc = "mint" /\ req[r].loSeen # None /\ Stepped(r)
          => tokens'[req'[r].tok].ver > req[r].loSeen]_vars

\* C8: a blacklist check issued while the store faults treats the token as
\* revoked: the request is answered 401, not an error.
C8_BlacklistFailsClosed ==
    [][\A r \in Slots :
          req[r].pc = "val_exists" /\ ~storeUp /\ Stepped(r)
          => Rejected(req'[r], "revoked")]_vars

\* A token that is neither blacklisted nor outdated is rejected during an outage.
C8_Witness ==
    \E r \in Slots :
        /\ req[r].kind \in TokenKinds /\ Rejected(req[r], "revoked")
        /\ ~storeUp
        /\ token_blacklist[req[r].tok] = None
        /\ tokens[req[r].tok].ver >= IntOrZero(user_token_version.val)

CheckPcs == {"chk_get_lock", "chk_get_attempts_locked", "chk_delete", "chk_get_attempts"}
RecordPcs == {"rec_get_lock", "rec_get_attempts_locked", "rec_delete", "rec_incr",
              "rec_expire", "rec_setex"}

\* C9: a store fault at any command of check_rate_limit makes it return
\* (True, None, 0) and the login goes on; at any command of record_failed_attempt
\* it returns (0, None) and the login is answered 401; neither raises.
C9_LimiterFailsOpen ==
    [][\A r \in Slots :
          /\ req[r].pc \in CheckPcs /\ ~storeUp /\ Stepped(r)
             => /\ req'[r].pc = "authenticate"
                /\ req'[r].chk = [ret |-> TRUE, allowed |-> TRUE, until |-> None,
                                  attempts |-> 0]
          /\ req[r].pc \in RecordPcs /\ ~storeUp /\ Stepped(r)
             => /\ req'[r].pc = "done" /\ req'[r].status = 401
                /\ req'[r].rec = [ret |-> TRUE, attempts |-> 0, until |-> None]]_vars

\* During an outage, with the account locked and five failures counted: one login
\* was let past the check, another was answered with zero attempts.
C9_Witness ==
    /\ ~storeUp /\ LockoutActive /\ failed_attempts.val = max_attempts
    /\ \E r, s \in Slots :
          /\ req[r].pc = "authenticate" /\ req[r].chk.ret /\ req[r].chk.allowed
          /\ req[s].pc = "done" /\ req[s].status = 401 /\ req[s].rec.ret
          /\ req[s].rec.attempts = 0

\* C10: get_user_token_version returns the stored integer, 0 when the key is
\* absent, 0 on a store fault: the version a login mints with, and the version a
\* validation compares with, is that value.
C10_Version ==
    IF ~storeUp THEN 0
    ELSE IF user_token_version.val = None THEN 0 ELSE user_token_version.val

C10_ReadsStoredVersion ==
    [][\A r \in Slots :
          /\ req[r].pc = "mint" /\ Stepped(r)
             => req'[r].status = 200 /\ tokens'[req'[r].tok].ver = C10_Version
          /\ req[r].pc = "val_get_version" /\ Stepped(r)
             => (Rejected(req'[r], "revoked")
                   <=> tokens[req[r].tok].ver < C10_Version)]_vars

\* One token minted with the stored version 1, and one minted with 0 during an
\* outage although 1 is stored.
C10_Witness ==
    /\ user_token_version.val = 1
    /\ ~storeUp
    /\ \E r \in Slots :
          /\ req[r].kind = "login" /\ req[r].pc = "done" /\ req[r].status = 200
          /\ tokens[req[r].tok].ver = 0 /\ tokens[req[r].tok].mark = "weak"

C12_LogoutsAnswer204OnFault ==
    [][\A r \in Slots :
          req[r].pc \in {"lo_setex", "la_incr", "la_expire"} /\ ~storeUp /\ Stepped(r)
          => req'[r].pc = "done" /\ req'[r].status = 204]_vars

\* ---------------------------------------------------------------- C13

\* The duration the specification states for a lockout written at counter c
C13_Minutes(c) ==
    LET doubled == 2 ^ ((c - 5) \div 5) IN IF doubled < 480 THEN doubled ELSE 480

\* C13: whenever record_failed_attempt writes a lockout at counter value c >= 5,
\* the locked_until it stores and returns is min(2^((c-5) div 5), 480) minutes
\* after the moment it was computed and the key's TTL is that many minutes
\* (5 -> 1, 10 -> 2, 15 -> 4, 20 -> 8, 25 -> 16); the duration is at least that of
\* every smaller counter value and never exceeds 480 minutes.
C13_LockoutDuration ==
    [][\A r \in Slots :
          /\ Stepped(r) /\ req'[r].pc = "rec_setex"
             => /\ req'[r].cur = failed_attempts'.val /\ req'[r].cur >= 5
                /\ req'[r].until = now + C13_Minutes(req'[r].cur)
          /\ req[r].pc = "rec_setex" /\ storeUp /\ Stepped(r)
             => LET c == req[r].cur
                    ttl == account_locked'.exp - now
                IN /\ c >= 5
                   /\ ttl = C13_Minutes(c)
                   /\ account_locked'.until = req[r].until
                   /\ req'[r].rec = RecordResult(c, req[r].until)
                   /\ ttl <= 480
                   /\ \A b \in 5..c : lockout_minutes(b) <= ttl
                   /\ (c = 5 => ttl = 1) /\ (c = 10 => ttl = 2)
                   /\ (c = 15 => ttl = 4) /\ (c = 20 => ttl = 8)
                   /\ (c = 25 => ttl = 16)]_vars

\* A lockout written at a counter past the cap (2^9 > 480) lasts 480 minutes
C13_Witness ==
    \E r \in Slots :
        /\ req[r].pc = "done" /\ req[r].kind = "login"
        /\ req[r].rec.attempts >= 50
        /\ account_locked.until = req[r].rec.until
        /\ account_locked.exp - now \in {479, 480}
        /\ failed_attempts.val = req[r].rec.attempts

\* ---------------------------------------------------------------- C14

\* C14 as stated: for an account whose failures are never cleared, the k-th
\* lockout written is written when the counter has reached 5k and lasts
\* min(2^(k-1), 480) minutes.
C14_KthLockoutAt5k ==
    [][\A r \in Slots :
          req[r].pc = "rec_setex" /\ Stepped(r) /\ hist.locks # None
          => LET k == hist.locks + 1 IN
             /\ req[r].cur = 5 * k
             /\ account_locked'.exp - now = (IF 2 ^ (k - 1) < 480 THEN 2 ^ (k - 1) ELSE 480)]_vars

\* ---------------------------------------------------------------- C15

\* The minutes of lockout a response reports: remaining_seconds of a 429
C15_Reported(q) == IF q.status = 429 THEN q.chk.until - now' ELSE 0

\* C15 as stated: after the first lockout is removed with unlock_account, the
\* response to the tenth further wrong-password login reports a lockout longer
\* than the first one.
C15_SecondLockoutLonger ==
    [][\A r \in Slots :
          /\ hist.since = further_requests - 1
          /\ hist'.since = further_requests
          /\ req'[r].pc = "done" /\ Stepped(r)
          => C15_Reported(req'[r]) > hist.first]_vars

\* ---------------------------------------------------------------- C16

\* C16: with one request at a time and a healthy store, the n-th failure counted
\* for an account (n = 1..4) makes record_failed_attempt return (n, None), the
\* login answers 401 reporting failed_attempts = n and remaining_attempts = 5 - n,
\* and check_rate_limit then returns (True, None, n); the 5th makes it return
\* (5, T) with T one minute ahead, stored as the lockout, and check_rate_limit
\* then returns (False, T, 5).
C16_CountsThenLocks ==
    [][\A r \in Slots :
          LET n == IntOrZero(failed_attempts.val) + 1
              returned == req'[r].pc = "done" /\ req'[r].rec = RecordResult(n, None)
                          /\ req'[r].status = 401
                          /\ failed_attempts_reported(req'[r]) = n
                          /\ remaining_attempts(req'[r]) = 5 - n
          IN
          /\ req[r].pc = "rec_incr" /\ Stepped(r)
             => /\ failed_attempts'.val = n
                /\ n = 1 => req'[r].pc = "rec_expire"
                /\ n \in 2..4 => returned
                /\ n = 5 => req'[r].pc = "rec_setex" /\ req'[r].until = now + 1
          /\ req[r].pc = "rec_expire" /\ Stepped(r)
             => failed_attempts'.val = 1 /\ n = 2 /\ req'[r].pc = "done"
                /\ req'[r].rec = RecordResult(1, None) /\ req'[r].status = 401
                /\ failed_attempts_reported(req'[r]) = 1
                /\ remaining_attempts(req'[r]) = 4
          /\ req[r].pc = "rec_setex" /\ Stepped(r) /\ failed_attempts.val = 5
             => /\ req'[r].rec = RecordResult(5, req[r].until)
                /\ account_locked'.until = req[r].until
          /\ req[r].pc = "chk_get_attempts" /\ Stepped(r) /\ failed_attempts.val \in 1..4
             => req'[r].chk = [ret |-> TRUE, allowed |-> TRUE, until |-> None,
                               attempts |-> failed_attempts.val]
          /\ req[r].pc = "chk_get_attempts_locked" /\ Stepped(r)
                /\ failed_attempts.val = 5 /\ account_locked.until # None
             => req'[r].chk = [ret |-> TRUE, allowed |-> FALSE,
                               until |-> account_locked.until, attempts |-> 5]]_vars

\* Five failures were counted from the clean account, the fifth wrote the lockout,
\* and check_rate_limit has returned (False, T, 5) to the next login
C16_Witness ==
    \E r \in Slots :
        /\ hist = [NoHist EXCEPT !.locks = 1, !.first = 1]
        /\ req[r].pc = "done" /\ req[r].status = 429
        /\ req[r].chk = [ret |-> TRUE, allowed |-> FALSE,
                         until |-> account_locked.until, attempts |-> 5]
        /\ failed_attempts.val = 5 /\ account_locked.until = account_locked.exp

\* ---------------------------------------------------------------- C17

\* C17: record_failed_attempt that reads a lockout which has not expired issues
\* no incr and no setex: the counter and the lockout (value and TTL) are as they
\* were, and it returns (stored counter value, the locked_until it read).
C17_LockedRecordChangesNothing ==
    [][\A r \in Slots :
          /\ req[r].pc = "rec_get_lock" /\ storeUp /\ Stepped(r)
                /\ account_locked.until # None /\ account_locked.until > now
             => /\ req'[r].pc = "rec_get_attempts_locked"
                /\ req'[r].until = account_locked.until
                /\ failed_attempts' = failed_attempts
                /\ account_locked' = account_locked
          /\ req[r].pc = "rec_get_attempts_locked" /\ Stepped(r)
             => /\ failed_attempts' = failed_attempts
                /\ account_locked' = account_locked
                /\ req'[r].pc = "done"
                /\ storeUp => req'[r].rec =
                      [ret |-> TRUE,
                       attempts |-> IF failed_attempts.val = None THEN 0
                                    ELSE failed_attempts.val,
                       until |-> req[r].until]]_vars

\* Two wrong-password logins passed check_rate_limit together; one counted the
\* fifth failure and wrote the lockout, the other then read that lockout and
\* returned (5, T) without counting
C17_Witness ==
    \E r, q \in Slots :
        /\ r # q
        /\ req[r].pc = "done" /\ req[q].pc = "done"
        /\ req[r].rec = [ret |-> TRUE, attempts |-> 5, until |-> account_locked.until]
        /\ req[q].rec = req[r].rec
        /\ failed_attempts.val = 5 /\ account_locked.until > now
        /\ hist.locks = 1

\* ---------------------------------------------------------------- C18

\* C18 as stated: when a login with the right password completes, and no failed
\* login was made meanwhile (the other tasks hold no wrong-password login), the
\* account has no counter and no lockout.
C18_SuccessLeavesClean ==
    [][\A r \in Slots :
          /\ req[r].pc = "mint" /\ Stepped(r) /\ req'[r].status = 200
          /\ \A s \in Slots \ {r} : req[s].kind = "login" => req[s].pw
          => failed_attempts' = NoKey /\ account_locked' = NoLock]_vars

\* C18 amended: the clear_failed_attempts of a successful login, when the store
\* answers it, leaves no counter and no lockout; a counter appears again only by
\* the incr of a failed login, with value 1, and a lockout only by its setex; a
\* failed login that counted 1 and meets no fault reports failed_attempts = 1 and
\* remaining_attempts = 4.  When the store is unreachable at
\* clear_failed_attempts, the counter and the lockout stay as they were.
C18_ClearThenCountFromOne ==
    [][/\ \A r \in Slots :
             /\ req[r].pc = "clear" /\ Stepped(r)
                => /\ req'[r].pc = "mint"
                   /\ storeUp => failed_attempts' = NoKey /\ account_locked' = NoLock
                   /\ ~storeUp => failed_attempts' = failed_attempts
                                   /\ account_locked' = account_locked
             /\ req[r].pc = "rec_incr" /\ Stepped(r) /\ storeUp /\ failed_attempts = NoKey
                => req'[r].pc = "rec_expire" /\ req'[r].cur = 1
             /\ req[r].pc = "rec_expire" /\ Stepped(r) /\ storeUp
                => /\ req'[r].pc = "done" /\ req'[r].status = 401
                   /\ failed_attempts_reported(req'[r]) = 1
                   /\ remaining_attempts(req'[r]) = 4
       /\ failed_attempts = NoKey /\ failed_attempts' # NoKey
          => /\ failed_attempts'.val = 1
             /\ \E r \in Slots : req[r].pc = "rec_incr" /\ Stepped(r) /\ ~req[r].pw
       /\ account_locked = NoLock /\ account_locked' # NoLock
          => \E r \in Slots : req[r].pc = "rec_setex" /\ Stepped(r) /\ ~req[r].pw]_vars

\* Failures had been counted, a successful login cleared them and was answered
\* 200, and the failed login after it reported failed_attempts = 1
C18_Witness ==
    \E r, q \in Slots :
        /\ req[r].pc = "done" /\ req[r].pw /\ req[r].status = 200
        /\ req[q].pc = "done" /\ ~req[q].pw /\ req[q].status = 401
        /\ failed_attempts_reported(req[q]) = 1 /\ remaining_attempts(req[q]) = 4
        /\ hist.locks = None
        /\ failed_attempts.val = 1 /\ account_locked = NoLock

\* ---------------------------------------------------------------- C19

\* A lockout was written for the account, nothing has cleared its failures since,
\* and the lockout is gone from the store: it has run out
C19_LockoutRanOut == hist.locks # None /\ hist.locks >= 1 /\ account_locked = NoLock

\* C19 as stated: the check_rate_limit after a lockout has run out finds the
\* account as one that never failed: no lockout and a failure count of 0.
C19_ExpiryReturnsClean ==
    [][\A r \in Slots :
          req[r].pc = "chk_get_attempts" /\ Stepped(r) /\ storeUp /\ C19_LockoutRanOut
          => req'[r].chk.attempts = 0 /\ failed_attempts' = NoKey]_vars

\* C19 amended: check_rate_limit after a lockout has run out removes the lockout
\* key if it is still stored and allows the login, but keeps the counter: it
\* returns (True, None, the stored count, at least 5), and the next failure
\* counts on from it and locks the account again at once.
C19_ExpiryKeepsCounter ==
    [][\A r \in Slots :
          /\ req[r].pc = "chk_delete" /\ Stepped(r) /\ storeUp
             => /\ account_locked' = NoLock
                /\ failed_attempts' = failed_attempts
                /\ req'[r].pc = "chk_get_attempts"
          /\ req[r].pc = "chk_get_attempts" /\ Stepped(r) /\ storeUp /\ C19_LockoutRanOut
             => /\ failed_attempts.val >= 5
                /\ req'[r].chk = [ret |-> TRUE, allowed |-> TRUE, until |-> None,
                                  attempts |-> failed_attempts.val]
                /\ req'[r].pc = "authenticate"
                /\ failed_attempts' = failed_attempts /\ account_locked' = NoLock
          /\ req[r].pc = "rec_incr" /\ Stepped(r) /\ storeUp /\ C19_LockoutRanOut
             => /\ failed_attempts'.val = failed_attempts.val + 1
                /\ req'[r].pc = "rec_setex" /\ req'[r].cur >= 6]_vars

\* The first lockout has run out and check_rate_limit has let the next login
\* through, returning the five failures still counted
C19_Witness ==
    \E r \in Slots :
        /\ req[r].pc = "authenticate"
        /\ req[r].chk = [ret |-> TRUE, allowed |-> TRUE, until |-> None, attempts |-> 5]
        /\ hist.locks = 1 /\ account_locked = NoLock /\ failed_attempts.val = 5
        /\ now > 0

\* ---------------------------------------------------------------- C20

C21_UnlockAlwaysClears ==
    [][\A r \in Slots :
          /\ req[r].pc = "ul_exists" /\ Stepped(r) /\ storeUp
             => (req'[r].cur = 1 <=> account_locked.until # None /\ account_locked.until > now)
          /\ req[r].kind = "unlock" /\ Stepped(r) /\ req'[r].pc = "done"
             => failed_attempts' = NoKey /\ account_locked' = NoLock]_vars

\* C21 amended: when the store answers, unlock_account returns True exactly when
\* the lockout key existed at its exists (expired or not) and deletes both keys;
\* check_rate_limit on the account with both keys absent returns (True, None, 0)
\* and a login with the right password that is let through answers 200.  When the
\* store is unreachable, unlock_account returns False and changes nothing.
C21_UnlockClearsUnlessFault ==
    [][\A r \in Slots :
          /\ req[r].pc = "ul_exists" /\ Stepped(r)
             => /\ failed_attempts' = failed_attempts /\ account_locked' = account_locked
                /\ storeUp => /\ req'[r].pc = "ul_delete"
                               /\ (req'[r].cur = 1 <=> account_locked.until # None)
                /\ ~storeUp => req'[r].pc = "done" /\ req'[r].detail = "redis_error"
          /\ req[r].pc = "ul_delete" /\ Stepped(r)
             => /\ req'[r].pc = "done"
                /\ storeUp => /\ failed_attempts' = NoKey /\ account_locked' = NoLock
                               /\ (req'[r].detail = "unlocked" <=> req[r].cur = 1)
                               /\ (req'[r].detail = "not_locked" <=> req[r].cur = 0)
                /\ ~storeUp => /\ failed_attempts' = failed_attempts
                                /\ account_locked' = account_locked
                                /\ req'[r].detail = "redis_error"
          /\ req[r].pc = "chk_get_attempts" /\ Stepped(r) /\ storeUp
                /\ failed_attempts = NoKey /\ account_locked = NoLock
             => /\ req'[r].chk = [ret |-> TRUE, allowed |-> TRUE, until |-> None,
                                  attempts |-> 0]
                /\ req'[r].pc = "authenticate"
          /\ req[r].pc = "authenticate" /\ Stepped(r) /\ req[r].pw
             => req'[r].pc = "clear"
          /\ req[r].pc = "mint" /\ Stepped(r)
             => req'[r].pc = "done" /\ req'[r].status = 200]_vars

\* A lockout was written, unlock_account removed it, and the login with the right
\* password that came next was answered 200
C21_Witness ==
    \E r \in Slots :
        /\ hist.first # None /\ hist.since = 1 /\ hist.unlocks = 1
        /\ req[r].pc = "done" /\ req[r].kind = "login" /\ req[r].pw
        /\ req[r].status = 200
        /\ failed_attempts = NoKey /\ account_locked = NoLock

\* ---------------------------------------------------------------- C22

\* C22: get_user_token_version called when k calls of revoke_all_user_tokens have
\* returned and none is in progress returns k; it returns 0 for an account with no
\* stored UserTokenVersion.
C22_VersionCountsRevokes ==
    [][\A r \in Slots :
          req[r].pc = "gv_get" /\ Stepped(r)
             /\ (\A s \in Slots : req[s].pc \notin {"la_incr", "la_expire"})
          => /\ req'[r].pc = "done" /\ req'[r].cur = hist.revokes
             /\ user_token_version = NoKey => req'[r].cur = 0
             /\ user_token_version' = user_token_version]_vars

\* revoke_all_user_tokens has returned MaxRevokes times and get_user_token_version
\* has returned that number
C22_Witness ==
    \E r \in Slots :
        /\ req[r].pc = "done" /\ req[r].kind = "version"
        /\ req[r].cur = MaxRevokes /\ hist.revokes = MaxRevokes
        /\ \A s \in Slots : Free(s)

\* ---------------------------------------------------------------- C23

\* C23 as stated: a call of revoke_all_user_tokens that has incremented the version
\* ends, returning or raising, with the key's TTL reset to 30 days.
C23_IncrementResetsTtl ==
    [][\A r \in Slots :
          req[r].pc = "la_expire" /\ Stepped(r)
          => /\ req'[r].pc = "done"
             /\ user_token_version'.exp = now + 30 * 1440]_vars

\* ---------------------------------------------------------------- C24

\* C24 as stated: in every state where the counter exists and no call of
\* record_failed_attempt is in progress, the counter's key carries a TTL, which
\* ends at most 24 hours from now.
C24_CounterExpires ==
    (failed_attempts.val # None /\ \A r \in Slots : req[r].pc \notin RecordPcs)
    => failed_attempts.exp # None /\ failed_attempts.exp <= now + 24 * 60

\* ---------------------------------------------------------------- C25

\* C25: record_failed_attempt does not look at the lockout again after its check:
\* its incr counts and its setex writes whatever lockout is in the store by then,
\* so that a call that passed the check before a concurrent call wrote a lockout
\* overwrites that lockout while it has not expired.
C25_SetexOverwrites ==
    [][\A r \in Slots :
          /\ req[r].pc = "rec_incr" /\ Stepped(r) /\ storeUp
             => /\ failed_attempts'.val = IntOrZero(failed_attempts.val) + 1
                /\ account_locked' = account_locked
                /\ failed_attempts'.val >= 5 => req'[r].pc = "rec_setex"
          /\ req[r].pc = "rec_setex" /\ Stepped(r) /\ storeUp
             => /\ account_locked'.until = req[r].until
                /\ account_locked'.exp = now + C13_Minutes(req[r].cur)
                /\ req'[r].rec.until = req[r].until]_vars

\* Two concurrent calls passed the lock check; the first counted 5 and wrote a
\* lockout, the second counted 6 and wrote the lockout again while the first
\* one's had not expired
C25_Witness ==
    \E r, q \in Slots :
        /\ req[r].pc = "done" /\ req[r].rec.ret /\ req[r].rec.attempts = 5
        /\ req[q].pc = "done" /\ req[q].rec.ret /\ req[q].rec.attempts = 6
        /\ req[r].rec.until # None /\ req[r].rec.until > now
        /\ req[q].rec.until # None
        /\ account_locked.until = req[q].rec.until
        /\ hist.locks = 2 /\ failed_attempts.val = 6

\* ---------------------------------------------------------------- C26

\* The account started clean and has had no store fault, no successful login, no
\* unlock, no expiry and no lockout so far
C26_Undisturbed ==
    /\ outages = 0 /\ storeUp /\ now = 0
    /\ hist.locks = 0 /\ hist.unlocks = 0
    /\ Minted = {} /\ \A s \in Slots : ~req[s].pw
    /\ account_locked = NoLock

\* Wrong passwords verified so far for such an account: the failures counted, and
\* the logins that authenticate_user has turned down and that have not counted yet
C26_Verified ==
    IntOrZero(failed_attempts.val)
      + Cardinality({s \in Slots : req[s].pc \in {"rec_get_lock", "rec_incr"}})

\* C26 as stated: for such an account no sixth wrong password is verified before
\* a lockout is in force.
C26_AtMostFiveVerified ==
    [][\A r \in Slots :
          req[r].pc = "authenticate" /\ Stepped(r) /\ C26_Undisturbed
          => C26_Verified < 5]_vars

\* ---------------------------------------------------------------- C27

\* C27 as stated: the delete of the lazy cleanup, in check_rate_limit and in
\* record_failed_attempt, never removes a lockout that has not expired.
C27_CleanupRemovesOnlyExpired ==
    [][\A r \in Slots :
          req[r].pc \in {"chk_delete", "rec_delete"} /\ Stepped(r) /\ storeUp
          => ~(account_locked.until # None /\ account_locked.until > now)]_vars

\* ---------------------------------------------------------------- C28

\* C28 as stated: with a store that never faults, a request that arrives before a
\* token's expiry, after POST /logout has blacklisted the token or after a
\* logout-all-devices answered 204 has incremented the version past the token's,
\* is rejected as revoked.
C28_RevocationPermanent ==
    [][\A r \in Slots :
          /\ req[r].kind \in TokenKinds /\ req[r].pc = "val_exists" /\ Stepped(r)
                /\ req[r].mark = "written" /\ outages = 0
             => Rejected(req'[r], "revoked")
          /\ req[r].kind \in TokenKinds /\ req[r].pc = "val_get_version" /\ Stepped(r)
                /\ tokens[req[r].tok].ver < req[r].afterAll /\ outages = 0
                /\ allRevokedTo = req[r].afterAll
                /\ tokens[req[r].tok].exp - access_token_expire_minutes <= hist.allAt
             => Rejected(req'[r], "revoked")]_vars

\* ---------------------------------------------------------------- C29

\* C29 as stated: a call of record_failed_attempt that returns the fail-open
\* result (0, None) has not changed the counter: it does not return it from
\* behind its own incr, with the counter still holding the value that incr
\* returned to it.
C29_FaultLeavesUntouched ==
    [][\A r \in Slots :
          req[r].pc \in RecordPcs /\ Stepped(r) /\ ~storeUp /\ req'[r].rec = RecordFault
          => ~(/\ req[r].pc \in {"rec_expire", "rec_setex"}
               /\ failed_attempts'.val = req[r].cur)]_vars

\* ---------------------------------------------------------------- C30

\* C30: while the store faults, a request that presents a token goes from its
\* arrival to the blacklist check and from the blacklist check to a 401: it
\* never reaches the version read or the endpoint.
C30_OutageRejectsAll ==
    [][~storeUp =>
          \A r \in Slots :
             /\ req'[r] # req[r] /\ req'[r].kind \in TokenKinds
             /\ req[r].pc \in {"idle", "done", "val_exists"}
             => \/ req'[r].pc = "val_exists"
                \/ req'[r].pc = "done" /\ req'[r].status = 401]_vars

\* During an outage a token is rejected that carries the account's current
\* version, 1, which the version read, answering 0 on a fault, would have passed.
C30_Witness ==
    \E r \in Slots :
        /\ ~storeUp
        /\ req[r].kind \in TokenKinds /\ Rejected(req[r], "revoked")
        /\ token_blacklist[req[r].tok] = None
        /\ tokens[req[r].tok].ver = 1 /\ user_token_version.val = 1

====
